---- MODULE Spec2Model ----
(***************************************************************************)
(* Model of packages/evolution-generator/src/scripts/generate_libelles.py: *)
(* the notation transformer (ValueReplacer), the per-file translation      *)
(* store (TranslationLangNs), the registry (TranslationData), the          *)
(* spreadsheet extraction (FillLocalesTranslations) and the orchestrator   *)
(* generate_libelles.                                                      *)
(*                                                                         *)
(* Python strings are sequences of one-character strings, so that count,   *)
(* replace, split and concatenation are computed as Python computes them.  *)
(* Python's None is the one-element sequence NoneVal, which no string of   *)
(* characters equals.                                                      *)
(***************************************************************************)
EXTENDS Integers, Sequences, FiniteSets, TLC

\* ------------------------------------------------------------------------
\* Bounds of the model
\* ------------------------------------------------------------------------
MaxPieces == 4

MaxRows == 2

MaxRuns == 2

\* ------------------------------------------------------------------------
\* String primitives (str.count, "in", str.replace, str.split)
\* ------------------------------------------------------------------------
NoneVal == <<"<None>">>

EmptyStr == <<>>

OccursAt(s, t, i) ==
    /\ i >= 1
    /\ i + Len(t) - 1 <= Len(s)
    /\ SubSeq(s, i, i + Len(t) - 1) = t

RECURSIVE Find(_, _, _)
\* index of the leftmost occurrence of t in s at or after i, 0 when none
Find(s, t, i) ==
    IF i + Len(t) - 1 > Len(s) THEN 0
    ELSE IF OccursAt(s, t, i) THEN i
    ELSE Find(s, t, i + 1)

Contains(s, t) == Find(s, t, 1) # 0

RECURSIVE CountFrom(_, _, _)
CountFrom(s, t, i) ==
    LET p == Find(s, t, i)
    IN  IF p = 0 THEN 0 ELSE 1 + CountFrom(s, t, p + Len(t))

\* str.count(t): number of non-overlapping occurrences, scanned left to right
Count(s, t) == CountFrom(s, t, 1)

\* str.replace(t, r, 1)
ReplaceFirst(s, t, r) ==
    LET p == Find(s, t, 1)
    IN  IF p = 0 THEN s
        ELSE SubSeq(s, 1, p - 1) \o r \o SubSeq(s, p + Len(t), Len(s))

RECURSIVE ReplaceAllFrom(_, _, _, _)
ReplaceAllFrom(s, t, r, i) ==
    LET p == Find(s, t, i)
    IN  IF p = 0 THEN SubSeq(s, i, Len(s))
        ELSE SubSeq(s, i, p - 1) \o r \o ReplaceAllFrom(s, t, r, p + Len(t))

\* str.replace(t, r)
ReplaceAll(s, t, r) == ReplaceAllFrom(s, t, r, 1)

\* key.split('_', 1): <<whole>> without an underscore, <<before, after>> with
Split1(s) ==
    LET p == Find(s, <<"_">>, 1)
    IN  IF p = 0 THEN <<s>>
        ELSE <<SubSeq(s, 1, p - 1), SubSeq(s, p + 1, Len(s))>>

\* ------------------------------------------------------------------------
\* ValueReplacer
\* ------------------------------------------------------------------------
startBoldHtml == <<"<", "s", "t", "r", "o", "n", "g", ">">>

endBoldHtml == <<"<", "/", "s", "t", "r", "o", "n", "g", ">">>

boldNotation == <<"*", "*">>

startOblique == <<"<", "s", "p", "a", "n", " ", "c", "l", "a", "s", "s", "=", "\"", "_", "p", "a", "l", "e", " ", "_", "o", "b", "l", "i", "q", "u", "e", "\"", ">">>

endOblique == <<"<", "/", "s", "p", "a", "n", ">">>

obliqueNotation == <<"_", "_">>

startGreen == <<"<", "s", "p", "a", "n", " ", "s", "t", "y", "l", "e", "=", "\"", "c", "o", "l", "o", "r", ":", " ", "g", "r", "e", "e", "n", ";", "\"", ">">>

endGreen == <<"<", "/", "s", "p", "a", "n", ">">>

greenNotation == <<"_", "g", "r", "e", "e", "n", "_">>

startRed == <<"<", "s", "p", "a", "n", " ", "s", "t", "y", "l", "e", "=", "\"", "c", "o", "l", "o", "r", ":", " ", "r", "e", "d", ";", "\"", ">">>

endRed == <<"<", "/", "s", "p", "a", "n", ">">>

redNotation == <<"_", "r", "e", "d", "_">>

NewLine == <<"\n">>

BrTag == <<"<", "b", "r", " ", "/", ">">>

\* the four notations in the order replace applies them
Notations ==
    << [notation |-> boldNotation,    startTag |-> startBoldHtml, endTag |-> endBoldHtml],
       [notation |-> obliqueNotation, startTag |-> startOblique,  endTag |-> endOblique],
       [notation |-> greenNotation,   startTag |-> startGreen,    endTag |-> endGreen],
       [notation |-> redNotation,     startTag |-> startRed,      endTag |-> endRed] >>

RECURSIVE replaceLoop(_, _, _, _, _)
\* the while loop of replaceStartEnd
replaceLoop(replacedStr, notation, startReplaced, endReplaced, replacedCount) ==
    IF Contains(replacedStr, notation)
    THEN replaceLoop(
            ReplaceFirst(replacedStr, notation,
                         IF replacedCount % 2 = 0 THEN startReplaced ELSE endReplaced),
            notation, startReplaced, endReplaced, replacedCount + 1)
    ELSE replacedStr

replaceStartEndAlways(string, notation, startReplaced, endReplaced) ==
    IF Contains(string, notation)
    THEN replaceLoop(string, notation, startReplaced, endReplaced, 0)
    ELSE string

replaceStartEnd(string, notation, startReplaced, endReplaced) ==
    IF Contains(string, notation) /\ Count(string, notation) % 2 = 0
    THEN replaceLoop(string, notation, startReplaced, endReplaced, 0)
    ELSE string

replace(string) ==
    LET s0 == ReplaceAll(string, NewLine, BrTag)
        s1 == replaceStartEnd(s0, boldNotation, startBoldHtml, endBoldHtml)
        s2 == replaceStartEnd(s1, obliqueNotation, startOblique, endOblique)
        s3 == replaceStartEnd(s2, greenNotation, startGreen, endGreen)
        s4 == replaceStartEnd(s3, redNotation, startRed, endRed)
    IN  s4

\* ------------------------------------------------------------------------
\* Names and values of the modelled spreadsheets and output root
\* ------------------------------------------------------------------------
NomToken == <<"[", "n", "o", "m", "]">>

NicknameExpr == <<"{", "{", "n", "i", "c", "k", "n", "a", "m", "e", "}", "}">>

YmlExt == <<".", "y", "m", "l">>

S_fr == <<"f", "r">>

S_en == <<"e", "n">>

S_home == <<"h", "o", "m", "e">>

S_other == <<"o", "t", "h", "e", "r">>

S_Q1 == <<"Q", "1">>

S_Q2 == <<"Q", "2">>

S_key == <<"k", "e", "y">>

S_namespace == <<"n", "a", "m", "e", "s", "p", "a", "c", "e">>

S_md == <<"m", "d">>

S_fr_label == <<"f", "r", "_", "l", "a", "b", "e", "l">>

S_f_x == <<"f", "_", "x">>

S__x == <<"_", "x">>

S_eng_x == <<"e", "n", "g", "_", "x">>

S_ab == <<"a", ".", "b">>

S_c == <<"c">>

V_old == <<"o", "l", "d">>

V_nom == <<"[", "n", "o", "m", "]", "*">>

V_bold == <<"*", "*", "b", "*", "*">>

V_lab == <<"_", "_", "l", "_", "_", "\n">>

V_one == <<"1">>

V_ns == <<"n", "s">>

EmptyMap == [p \in {} |-> EmptyStr]

\* ------------------------------------------------------------------------
\* TranslationLangNs: one store per (language, section) file
\* ------------------------------------------------------------------------
\* FoldedScalarString keeps the text and marks it for folded rendering
stringToYaml(str) ==
    [s |-> str, folded |-> Contains(str, NewLine) \/ Len(str) > 76]

TranslationLangNs(file) ==
    [modified |-> FALSE, data |-> EmptyMap, file |-> file]

\* content is what yaml.load gives for the file: a mapping, or a parse failure
TranslationLangNs_loadCurrentTranslations(store, content) ==
    IF ~content.ok
    THEN [raised |-> TRUE, store |-> store]
    ELSE [raised |-> FALSE,
          store  |-> [store EXCEPT !.data =
                        [path \in DOMAIN content.data |-> stringToYaml(content.data[path])]]]

\* yaml.dump(self.data): the mapping with each value's text
YamlDump(data) ==
    [ok |-> TRUE, data |-> [path \in DOMAIN data |-> data[path].s]]

addTranslationNoGate(store, path, value, overwrite, keepMarkdown) ==
    LET v1 == ReplaceAll(value, NomToken, NicknameExpr)
        v2 == IF ~keepMarkdown THEN replace(v1) ELSE v1
    IN  [store EXCEPT !.data = (path :> stringToYaml(v2)) @@ store.data,
                      !.modified = TRUE]

TranslationLangNs_addTranslation(store, path, value, overwrite, keepMarkdown) ==
    IF ~overwrite /\ path \in DOMAIN store.data
    THEN store
    ELSE LET v1 == ReplaceAll(value, NomToken, NicknameExpr)
             v2 == IF ~keepMarkdown THEN replace(v1) ELSE v1
         IN  [store EXCEPT !.data = (path :> stringToYaml(v2)) @@ store.data,
                           !.modified = TRUE]

\* ------------------------------------------------------------------------
\* The output root: files are paths relative to it, a sequence of components
\* ------------------------------------------------------------------------
\* os.path.join(root, lang, name): an empty component adds no directory level
PathJoin(lang, name) ==
    IF lang = EmptyStr THEN <<name>> ELSE <<lang, name>>

EndsWith(s, t) ==
    Len(s) >= Len(t) /\ SubSeq(s, Len(s) - Len(t) + 1, Len(s)) = t

Hidden(name) == Len(name) >= 1 /\ name[1] = "."

\* glob(escape(root) + "/**/*.yml") without recursive=True: "**" is "*", so
\* exactly <root>/<dir>/<name>.yml, and "*" matches no leading dot
GlobMatches(file) ==
    /\ Len(file) = 2
    /\ ~Hidden(file[1])
    /\ ~Hidden(file[2])
    /\ EndsWith(file[2], YmlExt)

RECURSIVE LastDot(_, _)
LastDot(name, i) ==
    IF i = 0 THEN 0 ELSE IF name[i] = "." THEN i ELSE LastDot(name, i - 1)

\* os.path.splitext(os.path.basename(file))[0]
SplitextBase(name) ==
    LET d == LastDot(name, Len(name))
    IN  IF d <= 1 THEN name ELSE SubSeq(name, 1, d - 1)

\* open(file, "w") succeeds only if the file's directory exists
ParentExists(file, existingDirs) ==
    Len(file) = 1 \/ file[1] \in existingDirs

\* ------------------------------------------------------------------------
\* TranslationData: the registry, a dict of dicts in insertion order
\* ------------------------------------------------------------------------
TranslationData ==
    [langs |-> <<>>, sections |-> [l \in {} |-> <<>>], store |-> [k \in {} |-> 0]]

HasLang(T, lang) == lang \in DOMAIN T.sections

HasStore(T, lang, section) == <<lang, section>> \in DOMAIN T.store

EnsureLang(T, lang) ==
    IF HasLang(T, lang) THEN T
    ELSE [T EXCEPT !.langs = Append(@, lang),
                   !.sections = (lang :> <<>>) @@ @]

PutStore(T, lang, section, st) ==
    [T EXCEPT !.sections[lang] = IF HasStore(T, lang, section) THEN @ ELSE Append(@, section),
              !.store = (<<lang, section>> :> st) @@ @]

TranslationData_addTranslations(T, lang, section, translations) ==
    PutStore(EnsureLang(T, lang), lang, section, translations)

\* section + ".yml" raises TypeError when the section cell is None; the
\* language entry has been created by then
TranslationData_addTranslation(T, lang, section, path, value, overwrite, keepMarkdown) ==
    LET T1 == EnsureLang(T, lang)
    IN  IF ~HasStore(T1, lang, section) /\ section = NoneVal
        THEN [raised |-> TRUE, T |-> T1]
        ELSE LET T2 == IF HasStore(T1, lang, section) THEN T1
                       ELSE PutStore(T1, lang, section,
                                TranslationLangNs(PathJoin(lang, section \o YmlExt)))
             IN  [raised |-> FALSE,
                  T |-> [T2 EXCEPT !.store[<<lang, section>>] =
                            TranslationLangNs_addTranslation(@, path, value, overwrite, keepMarkdown)]]

RECURSIVE SaveOrderFrom(_, _)
SaveOrderFrom(T, i) ==
    IF i > Len(T.langs) THEN <<>>
    ELSE [j \in 1..Len(T.sections[T.langs[i]]) |-> <<T.langs[i], T.sections[T.langs[i]][j]>>]
         \o SaveOrderFrom(T, i + 1)

\* the order in which TranslationData.save visits the stores
SaveOrder(T) == SaveOrderFrom(T, 1)

\* ------------------------------------------------------------------------
\* State
\* ------------------------------------------------------------------------
VARIABLES
    widgets,             \* data rows of the "Widgets" sheet
    labels,              \* rows of the "Labels" sheet, header row first
    overwrite,           \* the run's overwrite flag
    dirs,                \* language directories that exist under the output root
    disk,                \* file path -> content, for the files under the output root
    pc,                  \* position of generate_libelles
    run,                 \* number of runs started
    prevDone,            \* the previous run returned without raising
    translations,        \* allTranslations, the registry
    toLoad,              \* files found by glob and not loaded yet
    loadedKeys,          \* (lang, section) pairs registered from existing files
    locales_dictionary,  \* Labels rows by their key
    rowIdx,              \* next Widgets row
    saveQueue,           \* stores TranslationData.save has still to visit
    calls,               \* the registry addTranslation calls of this run, in order
    written,             \* files written in this run
    raised,              \* where the exception that ended the run came from
    rin,                 \* transformer input
    rtok,                \* index of the notation applied, 0 for replace
    rout,                \* transformer output
    rstage               \* position of the transformer run

pipeVars == <<widgets, labels, overwrite, dirs, disk, pc, run, prevDone, translations,
              toLoad, loadedKeys, locales_dictionary, rowIdx, saveQueue, calls,
              written, raised>>

replVars == <<rin, rtok, rout, rstage>>

vars == <<widgets, labels, overwrite, dirs, disk, pc, run, prevDone, translations,
          toLoad, loadedKeys, locales_dictionary, rowIdx, saveQueue, calls,
          written, raised, rin, rtok, rout, rstage>>

\* ------------------------------------------------------------------------
\* Inputs: spreadsheets and output roots
\* ------------------------------------------------------------------------
\* a Widgets row: indices 0, 3, 5, 6, 7 of the sheet row
WidgetRow(q, section, path, fr, en) ==
    [question_name |-> q, section |-> section, path |-> path, fr |-> fr, en |-> en]

WidgetRowSet ==
    { WidgetRow(q, v[1], S_ab, v[2], v[3]) :
        q \in {S_Q1, S_Q2},
        v \in { <<S_home, V_nom, NoneVal>>,
                <<S_home, V_bold, V_nom>>,
                <<NoneVal, V_nom, NoneVal>> } }

WidgetSheets == UNION { [1..n -> WidgetRowSet] : n \in 0..MaxRows }

LabelHeader(col) == <<S_key, S_namespace, S_md, S_fr_label, col>>

LabelExtraCells ==
    { <<S_en, V_bold>>, <<S_f_x, V_bold>>, <<S__x, V_bold>>, <<S_eng_x, V_bold>>,
      <<S_en, EmptyStr>>, <<S_en, NoneVal>> }

LabelSheets ==
    { <<>>, <<LabelHeader(S_en)>> }
    \cup { << LabelHeader(x[1]), <<S_Q1, V_ns, md, V_lab, x[2]>> >> :
             x \in LabelExtraCells, md \in {V_one, NoneVal} }

YamlFile(data) == [ok |-> TRUE, data |-> data]

CorruptFile == [ok |-> FALSE, data |-> EmptyMap]

NoFiles == [f \in {} |-> CorruptFile]

OutputRoots ==
    { [dirs |-> {}, disk |-> NoFiles],
      [dirs |-> {S_fr}, disk |-> NoFiles],
      [dirs |-> {S_fr, S_en},
       disk |-> (<<S_fr, S_home \o YmlExt>> :> YamlFile(S_ab :> V_old))
                @@ (<<S_en, S_other \o YmlExt>> :> YamlFile(S_c :> V_old))],
      [dirs |-> {S_fr, S_en},
       disk |-> (<<S_fr, S_home \o YmlExt>> :> CorruptFile)] }

\* ------------------------------------------------------------------------
\* FillLocalesTranslations: extraction
\* ------------------------------------------------------------------------
Range(f) == { f[i] : i \in DOMAIN f }

LastIndex(seq, x) ==
    CHOOSE i \in DOMAIN seq : seq[i] = x /\ \A j \in DOMAIN seq : seq[j] = x => j <= i

\* the header row of the sheet
get_headers(sheet) == sheet[1]

\* dict(zip(headers, cells)): columns in header order, one value per header
current_locale(headers, cells) ==
    [cols |-> headers,
     val  |-> [h \in Range(headers) |-> cells[LastIndex(headers, h)]]]

NoLocales == [k \in {} |-> current_locale(<<>>, <<>>)]

getTranslationsReraise(sheet) ==
    IF Len(sheet) <= 1
    THEN [raised |-> TRUE, dict |-> NoLocales]
    ELSE LET headers == get_headers(sheet)
             rowKey(i) == current_locale(headers, sheet[i]).val[S_key]
             keys == { rowKey(i) : i \in 2..Len(sheet) }
             lastRow(k) == CHOOSE i \in 2..Len(sheet) :
                              rowKey(i) = k /\ \A j \in 2..Len(sheet) : rowKey(j) = k => j <= i
         IN  [raised |-> FALSE,
              dict |-> [k \in keys |-> current_locale(headers, sheet[lastRow(k)])]]

\* a sheet with at most its header row raises inside the try block, and the
\* except clause prints and returns {}: the method itself never raises
getTranslationsFromLocaleSheet(sheet) ==
    IF Len(sheet) <= 1
    THEN [raised |-> FALSE, dict |-> NoLocales]
    ELSE LET headers == get_headers(sheet)
             rowKey(i) == current_locale(headers, sheet[i]).val[S_key]
             keys == { rowKey(i) : i \in 2..Len(sheet) }
             lastRow(k) == CHOOSE i \in 2..Len(sheet) :
                              rowKey(i) = k /\ \A j \in 2..Len(sheet) : rowKey(j) = k => j <= i
         IN  [raised |-> FALSE,
              dict |-> [k \in keys |-> current_locale(headers, sheet[lastRow(k)])]]

\* one call of the registry's addTranslation, with the record of the call:
\* who made it, the store before and after, whether it raised
CallRecord(info, before, r) ==
    [row |-> info.row, src |-> info.src, col |-> info.col, lang |-> info.lang,
     section |-> info.section, path |-> info.path, value |-> info.value,
     overwrite |-> info.overwrite, keepMarkdown |-> info.keepMarkdown,
     before |-> before,
     after |-> IF r.raised THEN before ELSE r.T.store[<<info.lang, info.section>>],
     raised |-> r.raised]

StoreBefore(T, lang, section) ==
    IF HasStore(T, lang, section)
    THEN T.store[<<lang, section>>]
    ELSE TranslationLangNs(PathJoin(lang, section \o YmlExt))

Called(acc, info, r) ==
    [T |-> r.T,
     raised |-> r.raised,
     calls |-> Append(acc.calls, CallRecord(info, StoreBefore(acc.T, info.lang, info.section), r))]

AddCall(acc, rowNo, src, col, lang, section, path, value, ow, keepMarkdown) ==
    Called(acc,
           [row |-> rowNo, src |-> src, col |-> col, lang |-> lang,
            section |-> section, path |-> path, value |-> value,
            overwrite |-> ow, keepMarkdown |-> keepMarkdown],
           TranslationData_addTranslation(acc.T, lang, section, path, value, ow, keepMarkdown))

\* "if len(lngContext[0]) > 2: continue"
LangPartSkipped(langPart) == Len(langPart) > 2

RECURSIVE localesLoop(_, _, _)
\* after a call of the loop body: the first call that raises ends the loop
\* (the except clause prints and returns)
localesNext(a, c, i) ==
    IF a.raised THEN a ELSE localesLoop(a, c, i + 1)

\* the for loop over the columns of the matched Labels row; c holds the
\* arguments of the method, keepMarkdown and the overwrite flag
localesLoop(acc, c, i) ==
    IF i > Len(c.row.cols) THEN acc
    ELSE IF c.row.cols[i] = S_namespace \/ c.row.cols[i] = S_key \/ c.row.cols[i] = S_md
    THEN localesLoop(acc, c, i + 1)
    ELSE IF c.row.val[c.row.cols[i]] = EmptyStr \/ c.row.val[c.row.cols[i]] = NoneVal
    THEN localesLoop(acc, c, i + 1)
    ELSE IF LangPartSkipped(Split1(c.row.cols[i])[1])
    THEN localesLoop(acc, c, i + 1)
    ELSE localesNext(
            AddCall(acc, c.rowNo, "labels", c.row.cols[i], Split1(c.row.cols[i])[1], c.section,
                    IF Len(Split1(c.row.cols[i])) > 1
                    THEN c.question_name \o <<"_">> \o Split1(c.row.cols[i])[2]
                    ELSE c.question_name,
                    c.row.val[c.row.cols[i]], c.overwrite, c.keepMarkdown),
            c, i)

\* the result's raised field tells that a call raised; the method itself
\* never raises
addTranslationsFromLocales(acc, rowNo, section, question_name, row, ow) ==
    localesLoop(acc,
                [rowNo |-> rowNo, section |-> section, question_name |-> question_name,
                 row |-> row, overwrite |-> ow,
                 keepMarkdown |-> ((IF S_md \in DOMAIN row.val THEN row.val[S_md] ELSE <<"0">>) = V_one)],
                1)

\* the else branch of the row loop: French, then English, keepMarkdown False
addDefaultEn(a1, rowNo, row, ow) ==
    IF a1.raised THEN a1
    ELSE IF row.en # NoneVal
    THEN AddCall(a1, rowNo, "en", S_en, S_en, row.section, row.path, row.en, ow, FALSE)
    ELSE a1

addDefaultTranslations(acc, rowNo, row, ow) ==
    addDefaultEn(IF row.fr # NoneVal
                 THEN AddCall(acc, rowNo, "fr", S_fr, S_fr, row.section, row.path, row.fr, ow, FALSE)
                 ELSE acc,
                 rowNo, row, ow)

addBothStrategies(acc, rowNo, row, dict, ow) ==
    addDefaultTranslations(
        IF row.question_name \in DOMAIN dict
        THEN [addTranslationsFromLocales(acc, rowNo, row.section, row.question_name,
                                         dict[row.question_name], ow)
              EXCEPT !.raised = FALSE]
        ELSE acc,
        rowNo, row, ow)

\* the body of the row loop of addTranslationsFromExcel; raised in the result
\* means the exception leaves addTranslationsFromExcel
addRowTranslations(acc, rowNo, row, dict, ow) ==
    IF row.question_name \in DOMAIN dict
    THEN [addTranslationsFromLocales(acc, rowNo, row.section, row.question_name,
                                     dict[row.question_name], ow)
          EXCEPT !.raised = FALSE]
    ELSE addDefaultTranslations(acc, rowNo, row, ow)

\* ------------------------------------------------------------------------
\* generate_libelles, step by step
\* ------------------------------------------------------------------------
GlobYml(d) == { f \in DOMAIN d : GlobMatches(f) }

ReplIdle ==
    /\ rin = EmptyStr
    /\ rtok = 0
    /\ rout = EmptyStr
    /\ rstage = "off"

Init ==
    /\ widgets \in WidgetSheets
    /\ labels \in LabelSheets
    /\ overwrite \in BOOLEAN
    /\ \E root \in OutputRoots : dirs = root.dirs /\ disk = root.disk
    /\ pc = "idle"
    /\ run = 0
    /\ prevDone = FALSE
    /\ translations = TranslationData
    /\ toLoad = {}
    /\ loadedKeys = {}
    /\ locales_dictionary = NoLocales
    /\ rowIdx = 1
    /\ saveQueue = <<>>
    /\ calls = <<>>
    /\ written = {}
    /\ raised = "none"
    /\ ReplIdle

\* generate_libelles is called: the task is constructed and
\* loadCurrentTranslations lists the existing files
StartRun ==
    /\ pc \in {"idle", "done", "failed"}
    /\ run < MaxRuns
    /\ run' = run + 1
    /\ prevDone' = (pc = "done")
    /\ translations' = TranslationData
    /\ toLoad' = GlobYml(disk)
    /\ loadedKeys' = {}
    /\ locales_dictionary' = NoLocales
    /\ rowIdx' = 1
    /\ saveQueue' = <<>>
    /\ calls' = <<>>
    /\ written' = {}
    /\ raised' = "none"
    /\ pc' = "load"
    /\ UNCHANGED <<widgets, labels, overwrite, dirs, disk>>
    /\ UNCHANGED replVars

\* one iteration of the loop of loadCurrentTranslations
LoadFile ==
    /\ pc = "load"
    /\ \E f \in toLoad :
        LET lang == f[1]
            section == SplitextBase(f[2])
            r == TranslationLangNs_loadCurrentTranslations(TranslationLangNs(f), disk[f])
        IN  IF r.raised
            THEN /\ pc' = "failed"
                 /\ raised' = "load"
                 /\ UNCHANGED <<translations, toLoad, loadedKeys>>
            ELSE /\ translations' = TranslationData_addTranslations(translations, lang, section, r.store)
                 /\ toLoad' = toLoad \ {f}
                 /\ loadedKeys' = loadedKeys \cup {<<lang, section>>}
                 /\ UNCHANGED <<pc, raised>>
    /\ UNCHANGED <<widgets, labels, overwrite, dirs, disk, run, prevDone,
                   locales_dictionary, rowIdx, saveQueue, calls, written>>
    /\ UNCHANGED replVars

\* addTranslationsFromExcel opens the workbook and indexes the Labels sheet;
\* its except clause re-raises whatever the try block lets through
OpenWorkbook ==
    /\ pc = "load"
    /\ toLoad = {}
    /\ LET r == getTranslationsFromLocaleSheet(labels)
       IN  IF r.raised
           THEN /\ pc' = "failed"
                /\ raised' = "extract"
                /\ UNCHANGED locales_dictionary
           ELSE /\ locales_dictionary' = r.dict
                /\ pc' = "rows"
                /\ UNCHANGED raised
    /\ rowIdx' = 1
    /\ UNCHANGED <<widgets, labels, overwrite, dirs, disk, run, prevDone, translations,
                   toLoad, loadedKeys, saveQueue, calls, written>>
    /\ UNCHANGED replVars

\* the row's translations are in the registry, or the exception of the
\* default strategy leaves addTranslationsFromExcel and generate_libelles
RowDone(a) ==
    /\ translations' = a.T
    /\ calls' = a.calls
    /\ IF a.raised
       THEN /\ pc' = "failed"
            /\ raised' = "extract"
            /\ UNCHANGED rowIdx
       ELSE /\ rowIdx' = rowIdx + 1
            /\ UNCHANGED <<pc, raised>>

\* one iteration of the row loop of addTranslationsFromExcel
ProcessRow ==
    /\ pc = "rows"
    /\ rowIdx <= Len(widgets)
    /\ RowDone(addRowTranslations([T |-> translations, calls |-> calls, raised |-> FALSE],
                                  rowIdx, widgets[rowIdx], locales_dictionary, overwrite))
    /\ UNCHANGED <<widgets, labels, overwrite, dirs, disk, run, prevDone, toLoad,
                   loadedKeys, locales_dictionary, saveQueue, written>>
    /\ UNCHANGED replVars

StartSaveInsideLoop ==
    /\ pc = "rows"
    /\ saveQueue' = SaveOrder(translations)
    /\ pc' = "save"
    /\ UNCHANGED <<widgets, labels, overwrite, dirs, disk, run, prevDone, translations,
                   toLoad, loadedKeys, locales_dictionary, rowIdx, calls, written, raised>>
    /\ UNCHANGED replVars

\* saveAllTranslations: TranslationData.save starts visiting the stores
StartSave ==
    /\ pc = "rows"
    /\ rowIdx > Len(widgets)
    /\ saveQueue' = SaveOrder(translations)
    /\ pc' = "save"
    /\ UNCHANGED <<widgets, labels, overwrite, dirs, disk, run, prevDone, translations,
                   toLoad, loadedKeys, locales_dictionary, rowIdx, calls, written, raised>>
    /\ UNCHANGED replVars

saveUnconditional(st, d, existingDirs) ==
    IF ParentExists(st.file, existingDirs)
    THEN [raised |-> FALSE, wrote |-> TRUE,
          disk |-> (st.file :> YamlDump(st.data)) @@ d]
    ELSE [raised |-> TRUE, wrote |-> FALSE, disk |-> d]

\* TranslationLangNs.save: a dirty store is dumped to its file; open raises
\* FileNotFoundError when the file's directory does not exist
TranslationLangNs_save(st, d, existingDirs) ==
    IF st.modified
    THEN IF ParentExists(st.file, existingDirs)
         THEN [raised |-> FALSE, wrote |-> TRUE,
               disk |-> (st.file :> YamlDump(st.data)) @@ d]
         ELSE [raised |-> TRUE, wrote |-> FALSE, disk |-> d]
    ELSE [raised |-> FALSE, wrote |-> FALSE, disk |-> d]

\* one iteration of the loops of TranslationData.save
SaveStore ==
    /\ pc = "save"
    /\ saveQueue # <<>>
    /\ LET st == translations.store[Head(saveQueue)]
           r == TranslationLangNs_save(st, disk, dirs)
       IN  /\ disk' = r.disk
           /\ written' = IF r.wrote THEN written \cup {st.file} ELSE written
           /\ saveQueue' = Tail(saveQueue)
           /\ IF r.raised
              THEN pc' = "failed" /\ raised' = "save"
              ELSE UNCHANGED <<pc, raised>>
    /\ UNCHANGED <<widgets, labels, overwrite, dirs, run, prevDone, translations,
                   toLoad, loadedKeys, locales_dictionary, rowIdx, calls>>
    /\ UNCHANGED replVars

\* generate_libelles returns
Finish ==
    /\ pc = "save"
    /\ saveQueue = <<>>
    /\ pc' = "done"
    /\ UNCHANGED <<widgets, labels, overwrite, dirs, disk, run, prevDone, translations,
                   toLoad, loadedKeys, locales_dictionary, rowIdx, saveQueue, calls,
                   written, raised>>
    /\ UNCHANGED replVars

Next ==
    \/ StartRun
    \/ LoadFile
    \/ OpenWorkbook
    \/ ProcessRow
    \/ StartSave
    \/ SaveStore
    \/ Finish

Spec == Init /\ [][Next]_vars

\* ------------------------------------------------------------------------
\* The transformer on its own: every input built from a few pieces
\* ------------------------------------------------------------------------
Pieces ==
    { <<"*">>, boldNotation, <<"_">>, <<"a">>, greenNotation, redNotation, NewLine }

RECURSIVE Concat(_)
Concat(ps) == IF ps = <<>> THEN <<>> ELSE Head(ps) \o Concat(Tail(ps))

ReplaceInputs ==
    { Concat(ps) : ps \in UNION { [1..n -> Pieces] : n \in 0..MaxPieces } }

PipeIdle ==
    /\ widgets = <<>>
    /\ labels = <<>>
    /\ overwrite = FALSE
    /\ dirs = {}
    /\ disk = NoFiles
    /\ pc = "off"
    /\ run = 0
    /\ prevDone = FALSE
    /\ translations = TranslationData
    /\ toLoad = {}
    /\ loadedKeys = {}
    /\ locales_dictionary = NoLocales
    /\ rowIdx = 1
    /\ saveQueue = <<>>
    /\ calls = <<>>
    /\ written = {}
    /\ raised = "none"

InitReplace ==
    /\ PipeIdle
    /\ rin \in ReplaceInputs
    /\ rtok = 0
    /\ rout = EmptyStr
    /\ rstage = "input"

\* replaceStartEnd is applied to the input with one of the four notations
ApplyReplaceStartEnd ==
    /\ rstage = "input"
    /\ \E n \in DOMAIN Notations :
        /\ rtok' = n
        /\ rout' = replaceStartEnd(rin, Notations[n].notation,
                                   Notations[n].startTag, Notations[n].endTag)
    /\ rstage' = "startEnd"
    /\ UNCHANGED rin
    /\ UNCHANGED pipeVars

\* replace is applied to the input
ApplyReplace ==
    /\ rstage = "input"
    /\ rtok' = 0
    /\ rout' = replace(rin)
    /\ rstage' = "replace"
    /\ UNCHANGED rin
    /\ UNCHANGED pipeVars

NextReplace ==
    \/ ApplyReplaceStartEnd
    \/ ApplyReplace

SpecReplace == InitReplace /\ [][NextReplace]_vars

\* ------------------------------------------------------------------------
\* Properties
\* ------------------------------------------------------------------------
\* TranslationData.save has been entered in this run
saveCalled == pc \in {"save", "done"} \/ raised = "save"

\* the store's save has run (or raised) in this run
SaveTried(k) ==
    /\ saveCalled
    /\ k \in DOMAIN translations.store
    /\ \A i \in DOMAIN saveQueue : saveQueue[i] # k

\* the call went past the overwrite gate of the store
PassedGate(c) == ~c.raised /\ (c.overwrite \/ c.path \notin DOMAIN c.before.data)

Transformed(value, keepMarkdown) ==
    LET v == ReplaceAll(value, NomToken, NicknameExpr)
    IN  IF keepMarkdown THEN v ELSE replace(v)

\* C1: an add on a path already in the store with overwrite false leaves the
\* whole store (that value, every other entry, the modified flag) as it was;
\* with overwrite true, or on an absent path, the path holds the transformed
\* value, every other entry is kept and the modified flag is true.
C1_OverwriteGating ==
    \A i \in DOMAIN calls :
        LET c == calls[i]
        IN  ~c.raised =>
              IF ~c.overwrite /\ c.path \in DOMAIN c.before.data
              THEN c.after = c.before
              ELSE /\ c.path \in DOMAIN c.after.data
                   /\ c.after.data[c.path].s = Transformed(c.value, c.keepMarkdown)
                   /\ c.after.modified
                   /\ \A p \in DOMAIN c.before.data :
                        p # c.path => p \in DOMAIN c.after.data /\ c.after.data[p] = c.before.data[p]

C1_Witness ==
    \E i \in DOMAIN calls :
        LET c == calls[i]
        IN  /\ ~c.overwrite
            /\ c.path \in DOMAIN c.before.data
            /\ c.before.data[c.path].s = V_old
            /\ Transformed(c.value, c.keepMarkdown) # V_old
            /\ ~c.before.modified
            /\ c.after = c.before

\* files of the stores that an add of this run went past the gate of
MutatedFiles == { calls[i].after.file : i \in { j \in DOMAIN calls : PassedGate(calls[j]) } }

\* C2: a file is written in a run only if an add of that run mutated its
\* store; a store with no add, or with gated adds only, is never written.
C2_DirtyBitDiscipline ==
    \A f \in written : f \in MutatedFiles

C2_Witness ==
    /\ pc = "done"
    /\ loadedKeys # {}
    /\ \E i \in DOMAIN calls : ~calls[i].raised /\ ~PassedGate(calls[i])
    /\ \E k \in loadedKeys : \A i \in DOMAIN calls : <<calls[i].lang, calls[i].section>> # k
    /\ \A k \in loadedKeys : translations.store[k].file \notin written

\* C3: a second run with overwrite false, after a first run that completed,
\* sets no modified flag and writes no file.
C3_SecondRunIdempotent ==
    (run >= 2 /\ prevDone /\ ~overwrite) =>
        /\ written = {}
        /\ \A k \in DOMAIN translations.store : ~translations.store[k].modified

\* C4: an add that raises ends the run: it is the last add of the run, the
\* run fails with the exception, and save is never called.
C4_NoSwallowedFailure ==
    \A i \in DOMAIN calls :
        calls[i].raised => /\ i = Len(calls)
                           /\ pc = "failed"
                           /\ raised = "extract"
                           /\ ~saveCalled

\* C5: a file is written only once every existing file is loaded and every
\* Widgets row is processed; a run that load or extraction ends wrote nothing.
C5_RunAtomicity ==
    /\ written # {} => /\ toLoad = {}
                       /\ rowIdx > Len(widgets)
                       /\ saveCalled
    /\ raised \in {"load", "extract"} => written = {}

C5_Witness ==
    /\ raised = "extract"
    /\ \E k \in DOMAIN translations.store : translations.store[k].modified
    /\ written = {}

\* C7: for a Widgets row whose question name is a key of the Labels
\* dictionary every add comes from a value column of the matched Labels row,
\* never from the row's French or English value; the French and English
\* values are added only for rows whose name is not in the dictionary.
C7_LocaleSheetPrecedence ==
    \A i \in DOMAIN calls :
        LET c == calls[i]
            row == widgets[c.row]
        IN  IF row.question_name \in DOMAIN locales_dictionary
            THEN /\ c.src = "labels"
                 /\ c.col \in Range(locales_dictionary[row.question_name].cols)
                 /\ c.col \notin {S_namespace, S_key, S_md}
                 /\ c.value = locales_dictionary[row.question_name].val[c.col]
            ELSE \/ c.src = "fr" /\ c.value = row.fr
                 \/ c.src = "en" /\ c.value = row.en

C7_Witness ==
    /\ pc = "done"
    /\ \E r \in DOMAIN widgets :
        /\ widgets[r].question_name \in DOMAIN locales_dictionary
        /\ widgets[r].fr # NoneVal
        /\ widgets[r].en # NoneVal
        /\ \E i \in DOMAIN calls : calls[i].row = r /\ calls[i].src = "labels"
    /\ \E i \in DOMAIN calls : calls[i].src = "fr"

\* C8 as stated: a Labels sheet of at most one row aborts the run, no
\* translation is added and nothing is saved.
C8_LabelsRowsAbort ==
    Len(labels) <= 1 => /\ pc \notin {"rows", "save", "done"}
                        /\ calls = <<>>
                        /\ ~saveCalled
                        /\ written = {}

\* C8, amended: a Labels sheet of at most one row gives an empty Labels
\* dictionary and does not abort the run: every add then comes from the
\* French or English column of a Widgets row, and extraction fails only when
\* such an add raises.
C8_LabelsRowsDegrade ==
    (Len(labels) <= 1 /\ pc \notin {"idle", "load"} /\ raised # "load") =>
        /\ DOMAIN locales_dictionary = {}
        /\ \A i \in DOMAIN calls : calls[i].src \in {"fr", "en"}
        /\ raised = "extract" => (calls # <<>> /\ calls[Len(calls)].raised)

C8_Witness ==
    /\ Len(labels) <= 1
    /\ pc = "done"
    /\ calls # <<>>
    /\ written # {}

\* C9: save of a dirty, lazily created store whose language directory does
\* not exist creates the directory and writes the file without raising.
C9_SaveCreatesDirs ==
    \A k \in DOMAIN translations.store :
        LET st == translations.store[k]
        IN  (/\ k \notin loadedKeys
             /\ st.modified
             /\ ~ParentExists(st.file, dirs)
             /\ SaveTried(k))
            => (st.file \in DOMAIN disk /\ st.file \in written /\ raised # "save")

\* C10: a Labels column yields a translation only if the part of its name
\* before the first underscore is exactly 2 characters long, the column is
\* not namespace, key or md, and its cell is neither empty nor null.
C10_LangPrefixRule ==
    \A i \in DOMAIN calls :
        LET c == calls[i]
        IN  c.src = "labels" =>
              /\ Len(Split1(c.col)[1]) = 2
              /\ c.col \notin {S_namespace, S_key, S_md}
              /\ c.value # EmptyStr
              /\ c.value # NoneVal

RECURSIVE Alternate(_, _, _, _, _)
\* s from position i on, each occurrence of the notation met left to right
\* replaced by the opening tag (k even) or the closing tag (k odd)
Alternate(s, notation, startTag, endTag, st) ==
    IF st.i > Len(s) THEN <<>>
    ELSE IF OccursAt(s, notation, st.i)
    THEN (IF st.k % 2 = 0 THEN startTag ELSE endTag)
         \o Alternate(s, notation, startTag, endTag, [i |-> st.i + Len(notation), k |-> st.k + 1])
    ELSE <<s[st.i]>>
         \o Alternate(s, notation, startTag, endTag, [i |-> st.i + 1, k |-> st.k])

\* C6: with an even, non-zero number of occurrences of the notation the
\* occurrences are replaced left to right by opening and closing tag in turn,
\* the result holds no occurrence and as many opening as closing tags; with
\* an odd number of occurrences the string is returned unchanged.
C6_NotationBalance ==
    rstage = "startEnd" =>
        LET N == Notations[rtok]
            c == Count(rin, N.notation)
        IN  /\ c % 2 = 1 => rout = rin
            /\ (c > 0 /\ c % 2 = 0) =>
                  /\ rout = Alternate(rin, N.notation, N.startTag, N.endTag, [i |-> 1, k |-> 0])
                  /\ ~Contains(rout, N.notation)
                  /\ Count(rout, N.startTag) = c \div 2
                  /\ Count(rout, N.endTag) = c \div 2

C6_Witness ==
    /\ rstage = "startEnd"
    /\ rtok = 3
    /\ Count(rin, greenNotation) = 2
    /\ Contains(rin, obliqueNotation)
    /\ rout # rin

====
